---- MODULE Spec2Model ----
(***************************************************************************)
(* ClusterSecret controller: the kopf handlers of src/src/handlers.py and  *)
(* the cache entry of src/src/models.py, run against a small cluster       *)
(* (namespaces, ClusterSecret objects, namespaced secrets) and the three   *)
(* watch streams that drive them.                                          *)
(*                                                                         *)
(* Scheduling.  kopf runs the handlers of one object one after the other   *)
(* (one pending cause and one running handler per ClusterSecret uid, per   *)
(* namespace).  Handlers of different objects run concurrently: the sync   *)
(* handlers (on_delete, on_fields_avoid_or_match_namespace, on_field_data, *)
(* on_secret_event) run on executor threads, the async ones on the event   *)
(* loop.  Handlers whose races the properties below are about are split    *)
(* at their cache and API calls; the others are one step.                  *)
(*                                                                         *)
(* Lists of namespace names (syncedns, synced_namespace, the result of     *)
(* get_ns_list) hold no duplicates and are compared as sets everywhere,    *)
(* so they are sets here.  Names of secrets are sequences of tokens, so    *)
(* that prefix and pattern matching are computed, not assumed.             *)
(***************************************************************************)
EXTENDS Integers, Sequences, FiniteSets, TLC

\* ------------------------------------------------------------------ bounds
\* the changes users and the cluster make (ClusterSecrets created, edited,
\* deleted; namespaces created, deleted; managed secrets deleted), in total
MaxEvents == 4
\* status patches that fail (Transient / Conflict), in total
MaxPatchFailures == 1

\* ------------------------------------------------------------------ universe
Namespaces == {"a", "b"}
UIDs == {"u1", "u2"}

HelmPrefix == "sh.helm.release.v1."
HelmName == <<HelmPrefix, "x">>
RunnerName == <<"runner-", "x", "-project-", "x", "-concurrent-", "x">>
SrcName == <<"src">>
NoName == <<>>

\* metadata.name of the ClusterSecret with a given uid; u2 carries a name
\* that the noise filter of the secret watch matches
CSName(u) == IF u = "u1" THEN <<"mysecret">> ELSE RunnerName

V1 == [key |-> "value"]
V2 == [key |-> "newvalue"]
RefSrc == [valueFrom |-> [secretKeyRef |-> [name |-> SrcName, namespace |-> "a"]]]
RefHelm == [valueFrom |-> [secretKeyRef |-> [name |-> HelmName, namespace |-> "a"]]]
\* a reference to the copy that the ClusterSecret mysecret keeps in a
RefCopy == [valueFrom |-> [secretKeyRef |-> [name |-> <<"mysecret">>, namespace |-> "a"]]]

\* the data a user may give to each ClusterSecret
DataOf(u) == IF u = "u1" THEN {V1, V2} ELSE {RefSrc, RefHelm}

\* matchNamespace / avoidNamespaces; {} stands for an absent list
Selectors ==
    { [matchNamespace |-> {},    avoidNamespaces |-> {}],
      [matchNamespace |-> {"a"}, avoidNamespaces |-> {}],
      [matchNamespace |-> {"*"}, avoidNamespaces |-> {"a"}] }

NoBody == [data |-> V1, sel |-> [matchNamespace |-> {}, avoidNamespaces |-> {}],
           syncedns |-> {}]

VARIABLES
    nsPhase,     \* cluster: namespace -> "Absent" | "Active" | "Terminating"
    secrets,     \* cluster: managed secrets, a set of <<namespace, name, data>>
    cs,          \* cluster: uid -> ClusterSecret object (st, data, sel, status)
    csecs_cache, \* handlers.csecs_cache: uid -> BaseClusterSecret
    csEv,        \* kopf: uid -> the pending cause with the body of its event
    task,        \* uid -> position of the running handler of that object
    nsEv,        \* kopf: namespace -> pending cause "none" | "create" | "delete"
    nsTask,      \* position of the running namespace_watcher
    secEv,       \* secret watch: DELETED events of managed secrets, not yet handled
    used,        \* budget counters of the bounds above
    last         \* what the last step did (calls issued, results seen)

vars == <<nsPhase, secrets, cs, csecs_cache, csEv, task, nsEv, nsTask, secEv, used, last>>

\* ------------------------------------------------------------------ helpers
\* dict.get(k, default)
Get(d, k, def) == IF k \in DOMAIN d THEN d[k] ELSE def

\* src/src/models.py: BaseClusterSecret (metadata is name and uid; type is
\* always the default "Opaque")
BaseClusterSecret(u, name, data, synced, sel) ==
    [uid |-> u, name |-> name, data |-> data, synced_namespace |-> synced,
     match_namespace |-> sel.matchNamespace, avoid_namespaces |-> sel.avoidNamespaces]

\* cache.py: MemoryCache
set_cluster_secret(c, e) ==
    [x \in DOMAIN c \cup {e.uid} |-> IF x = e.uid THEN e ELSE c[x]]
remove_cluster_secret(c, u) == [x \in DOMAIN c \ {u} |-> c[x]]

\* shell-style match of a namespace name; the patterns used are "*" and
\* literal names
Glob(n, p) == p = "*" \/ p = n

\* kubernetes_utils.get_ns_list: the target namespaces of a selector over
\* the namespaces that are not Terminating
get_ns_list(phase, m, a) ==
    { n \in Namespaces :
        /\ phase[n] = "Active"
        /\ (m = {} \/ \E p \in m : Glob(n, p))
        /\ ~ \E p \in a : Glob(n, p) }

HasSecret(S, ns, name) == \E s \in S : s[1] = ns /\ s[2] = name

\* kubernetes_utils.sync_secret: create or replace the secret; a namespace
\* that is gone or Terminating takes no new secret
sync_secret(S, phase, ns, name, data) ==
    IF phase[ns] = "Active"
    THEN {s \in S : ~(s[1] = ns /\ s[2] = name)} \cup {<<ns, name, data>>}
    ELSE S

sync_all(S, phase, nss, name, data) ==
    {s \in S : ~(s[1] \in nss /\ phase[s[1]] = "Active" /\ s[2] = name)}
    \cup {<<n, name, data>> : n \in {x \in nss : phase[x] = "Active"}}

\* kubernetes_utils.delete_secret over a set of namespaces; NotFound is fine
delete_all(S, nss, name) == {s \in S : ~(s[1] \in nss /\ s[2] = name)}

\* the DELETED watch events that going from secrets S to secrets T produces,
\* each marked with who deleted the secret
Deleted(S, T, by) == {<<s[1], s[2], by>> : s \in {x \in S : ~HasSecret(T, x[1], x[2])}}

\* the ClusterSecret objects a status patch by name reaches
PatchTargets(name) == {u \in UIDs : CSName(u) = name /\ cs[u].st \in {"live", "deleting"}}

\* kubernetes_utils.patch_clustersecret_status: ok tells whether the API
\* call succeeded
patch_clustersecret_status(c, name, syncedns, ok) ==
    IF ok
    THEN [u \in UIDs |-> IF u \in PatchTargets(name)
                         THEN [c[u] EXCEPT !.status = syncedns] ELSE c[u]]
    ELSE c

\* the outcomes a status patch can have in the current state
PatchOutcomes(name) ==
    (IF PatchTargets(name) # {} THEN {TRUE} ELSE {})
    \cup (IF PatchTargets(name) = {} \/ used.pf < MaxPatchFailures THEN {FALSE} ELSE {})

PatchCost(name, ok) == IF ~ok /\ PatchTargets(name) # {} THEN 1 ELSE 0

Idle == [pc |-> "idle", body |-> NoBody, target |-> {}, prev |-> {}]
NoCause == [kind |-> "none", body |-> NoBody]
NoNsTask == [reason |-> "none", ns |-> "a", snap |-> <<>>, todo |-> {}]
NoEvent == [type |-> "none", name |-> NoName, namespace |-> "a", labels |-> <<>>,
            managed |-> FALSE]

\* the record of a step; every step writes one
Step(h, u) ==
    [h |-> h, uid |-> u, ev |-> NoEvent, syncs |-> {}, deletes |-> {},
     lookup |-> "none", cacheRead |-> FALSE, nsRead |-> FALSE, warns |-> {},
     patch |-> "none", prev |-> {}, origin |-> "none", cacheBefore |-> <<>>,
     reason |-> "none", ns |-> "a", patched |-> {}, held |-> {}, again |-> FALSE]

BodyOf(u) == [data |-> cs[u].data, sel |-> cs[u].sel, syncedns |-> cs[u].status]

\* ------------------------------------------------------------------ initial state
Init ==
    /\ nsPhase = [n \in Namespaces |-> IF n = "a" THEN "Active" ELSE "Absent"]
    /\ secrets = {}
    /\ cs = [u \in UIDs |-> [st |-> "absent", data |-> V1,
                             sel |-> [matchNamespace |-> {}, avoidNamespaces |-> {}],
                             status |-> {}]]
    /\ csecs_cache = <<>>
    /\ csEv = [u \in UIDs |-> NoCause]
    /\ task = [u \in UIDs |-> Idle]
    /\ nsEv = [n \in Namespaces |-> "none"]
    /\ nsTask = NoNsTask
    /\ secEv = {}
    /\ used = [ev |-> 0, pf |-> 0]
    /\ last = Step("init", "u1")

\* ------------------------------------------------------------------ the cluster
\* kubectl apply of a new ClusterSecret; kopf sees the creation
UserCreate(u, d, s) ==
    /\ cs[u].st = "absent"
    /\ used.ev < MaxEvents
    /\ cs' = [cs EXCEPT ![u] = [st |-> "live", data |-> d, sel |-> s, status |-> {}]]
    /\ csEv' = [csEv EXCEPT ![u] = [kind |-> "create",
                                   body |-> [data |-> d, sel |-> s, syncedns |-> {}]]]
    /\ used' = [used EXCEPT !.ev = @ + 1]
    /\ last' = Step("env", u)
    /\ UNCHANGED <<nsPhase, secrets, csecs_cache, task, nsEv, nsTask, secEv>>

\* an edit of .data; the event carries the object as it is now
UserUpdateData(u, d) ==
    /\ cs[u].st = "live" /\ csEv[u].kind = "none"
    /\ d # cs[u].data
    /\ used.ev < MaxEvents
    /\ cs' = [cs EXCEPT ![u].data = d]
    /\ csEv' = [csEv EXCEPT ![u] = [kind |-> "data", body |-> [BodyOf(u) EXCEPT !.data = d]]]
    /\ used' = [used EXCEPT !.ev = @ + 1]
    /\ last' = Step("env", u)
    /\ UNCHANGED <<nsPhase, secrets, csecs_cache, task, nsEv, nsTask, secEv>>

\* an edit of .matchNamespace / .avoidNamespaces
UserUpdateSelector(u, s) ==
    /\ cs[u].st = "live" /\ csEv[u].kind = "none"
    /\ s # cs[u].sel
    /\ used.ev < MaxEvents
    /\ cs' = [cs EXCEPT ![u].sel = s]
    /\ csEv' = [csEv EXCEPT ![u] = [kind |-> "selector", body |-> [BodyOf(u) EXCEPT !.sel = s]]]
    /\ used' = [used EXCEPT !.ev = @ + 1]
    /\ last' = Step("env", u)
    /\ UNCHANGED <<nsPhase, secrets, csecs_cache, task, nsEv, nsTask, secEv>>

\* kubectl delete of a ClusterSecret: the object stays, marked for deletion,
\* until on_delete has run
UserDelete(u) ==
    /\ cs[u].st = "live" /\ csEv[u].kind = "none"
    /\ used.ev < MaxEvents
    /\ cs' = [cs EXCEPT ![u].st = "deleting"]
    /\ csEv' = [csEv EXCEPT ![u] = [kind |-> "delete", body |-> BodyOf(u)]]
    /\ used' = [used EXCEPT !.ev = @ + 1]
    /\ last' = Step("env", u)
    /\ UNCHANGED <<nsPhase, secrets, csecs_cache, task, nsEv, nsTask, secEv>>

CreateNamespace(n) ==
    /\ nsPhase[n] = "Absent" /\ nsEv[n] = "none"
    /\ used.ev < MaxEvents
    /\ nsPhase' = [nsPhase EXCEPT ![n] = "Active"]
    /\ nsEv' = [nsEv EXCEPT ![n] = "create"]
    /\ used' = [used EXCEPT !.ev = @ + 1]
    /\ last' = Step("env", "u1")
    /\ UNCHANGED <<secrets, cs, csecs_cache, csEv, task, nsTask, secEv>>

\* kubectl delete namespace: the namespace turns Terminating
DeleteNamespace(n) ==
    /\ nsPhase[n] = "Active" /\ nsEv[n] = "none"
    /\ used.ev < MaxEvents
    /\ nsPhase' = [nsPhase EXCEPT ![n] = "Terminating"]
    /\ nsEv' = [nsEv EXCEPT ![n] = "delete"]
    /\ used' = [used EXCEPT !.ev = @ + 1]
    /\ last' = Step("env", "u1")
    /\ UNCHANGED <<secrets, cs, csecs_cache, csEv, task, nsTask, secEv>>

\* the namespace controller empties a Terminating namespace and removes it,
\* once the delete handler has released it
FinalizeNamespace(n) ==
    /\ nsPhase[n] = "Terminating" /\ nsEv[n] = "none"
    /\ ~(nsTask.reason # "none" /\ nsTask.ns = n)
    /\ nsPhase' = [nsPhase EXCEPT ![n] = "Absent"]
    /\ secrets' = {s \in secrets : s[1] # n}
    /\ secEv' = secEv \cup Deleted(secrets, secrets', "namespace")
    /\ last' = Step("env", "u1")
    /\ UNCHANGED <<cs, csecs_cache, csEv, task, nsEv, nsTask, used>>

\* somebody deletes a managed secret
ExternalDeleteSecret(n, name) ==
    /\ HasSecret(secrets, n, name)
    /\ used.ev < MaxEvents
    /\ secrets' = delete_all(secrets, {n}, name)
    /\ secEv' = secEv \cup {<<n, name, "external">>}
    /\ used' = [used EXCEPT !.ev = @ + 1]
    /\ last' = Step("env", "u1")
    /\ UNCHANGED <<nsPhase, cs, csecs_cache, csEv, task, nsEv, nsTask>>

\* ------------------------------------------------------------------ ClusterSecret handlers
\* lines 183-192 with the entry keeping the synced list it came with
create_fn_entry_from_status(u, body, matchedns) ==
    BaseClusterSecret(u, CSName(u), body.data, body.syncedns, body.sel)

\* lines 183-192 with the namespaces of the body's status kept in the list
create_fn_entry_appending(u, body, matchedns) ==
    BaseClusterSecret(u, CSName(u), body.data, matchedns \cup body.syncedns, body.sel)

\* lines 183-192: the entry create_fn stores
create_fn_entry(u, body, matchedns) ==
    BaseClusterSecret(u, CSName(u), body.data, matchedns, body.sel)

\* create_fn (async, no await: one step).  kopf stores the returned
\* {'syncedns': matchedns} under status.create_fn of the object.
create_fn(u) ==
    /\ csEv[u].kind = "create" /\ task[u].pc = "idle"
    /\ LET body == csEv[u].body
           matchedns == get_ns_list(nsPhase, body.sel.matchNamespace, body.sel.avoidNamespaces)
       IN /\ secrets' = sync_all(secrets, nsPhase, matchedns, CSName(u), body.data)
          /\ csecs_cache' = set_cluster_secret(csecs_cache,
                 create_fn_entry(u, body, matchedns))
          /\ cs' = [cs EXCEPT ![u].status = matchedns]
          /\ last' = [Step("create_fn", u) EXCEPT
                         !.syncs = {<<n, CSName(u), body.data>> : n \in matchedns},
                         !.patch = "ok",
                         !.again = (last.h = "create_fn" /\ last.uid = u)]
    /\ csEv' = [csEv EXCEPT ![u] = NoCause]
    /\ UNCHANGED <<nsPhase, task, nsEv, nsTask, secEv, used>>

\* on_field_data, reason "update": re-sync the namespaces of the body's
\* status and store the entry with that list
on_field_data(u) ==
    /\ csEv[u].kind = "data" /\ task[u].pc = "idle"
    /\ LET body == csEv[u].body
           syncedns == body.syncedns
       IN /\ secrets' = sync_all(secrets, nsPhase, syncedns, CSName(u), body.data)
          /\ csecs_cache' = set_cluster_secret(csecs_cache,
                 BaseClusterSecret(u, CSName(u), body.data, syncedns, body.sel))
          /\ last' = [Step("on_field_data", u) EXCEPT
                         !.syncs = {<<n, CSName(u), body.data>> : n \in syncedns},
                         !.cacheRead = TRUE,
                         !.prev = IF u \in DOMAIN csecs_cache
                                  THEN csecs_cache[u].synced_namespace ELSE {},
                         !.cacheBefore = csecs_cache]
    /\ csEv' = [csEv EXCEPT ![u] = NoCause]
    /\ UNCHANGED <<nsPhase, cs, task, nsEv, nsTask, secEv, used>>

\* on_fields_avoid_or_match_namespace, lines 85-97: diff the target against
\* the body's status, sync the additions, delete the removals
on_fields_reconcile(u) ==
    /\ csEv[u].kind = "selector" /\ task[u].pc = "idle"
    /\ LET body == csEv[u].body
           syncedns == body.syncedns
           updated_matched == get_ns_list(nsPhase, body.sel.matchNamespace,
                                          body.sel.avoidNamespaces)
           to_add == updated_matched \ syncedns
           to_remove == syncedns \ updated_matched
       IN /\ secrets' = delete_all(sync_all(secrets, nsPhase, to_add, CSName(u), body.data),
                                   to_remove, CSName(u))
          /\ secEv' = secEv \cup Deleted(secrets, secrets', "on_fields")
          /\ task' = [task EXCEPT ![u] = [pc |-> "fields_cache", body |-> body,
                                          target |-> updated_matched, prev |-> {}]]
          /\ last' = [Step("on_fields_reconcile", u) EXCEPT
                         !.syncs = {<<n, CSName(u), body.data>> : n \in to_add},
                         !.deletes = {<<n, CSName(u)>> : n \in to_remove},
                         !.cacheBefore = csecs_cache,
                         !.patched = updated_matched]
    /\ csEv' = [csEv EXCEPT ![u] = NoCause]
    /\ UNCHANGED <<nsPhase, cs, csecs_cache, nsEv, nsTask, used>>

\* lines 99-113: the entry is stored whether or not one was cached
on_fields_cache(u) ==
    /\ task[u].pc = "fields_cache"
    /\ LET body == task[u].body
           prev == IF u \in DOMAIN csecs_cache
                   THEN csecs_cache[u].synced_namespace ELSE {}
       IN /\ csecs_cache' = set_cluster_secret(csecs_cache,
                 BaseClusterSecret(u, CSName(u), body.data, task[u].target, body.sel))
          /\ task' = [task EXCEPT ![u].pc = "fields_patch", ![u].prev = prev]
          /\ last' = [Step("on_fields_cache", u) EXCEPT !.cacheRead = TRUE, !.prev = prev,
                                                       !.patched = task[u].target,
                                                       !.cacheBefore = csecs_cache]
    /\ UNCHANGED <<nsPhase, secrets, cs, csEv, nsEv, nsTask, secEv, used>>

\* lines 115-122: the status patch
on_fields_patch(u, ok) ==
    /\ task[u].pc = "fields_patch"
    /\ ok \in PatchOutcomes(CSName(u))
    /\ cs' = patch_clustersecret_status(cs, CSName(u), task[u].target, ok)
    /\ used' = [used EXCEPT !.pf = @ + PatchCost(CSName(u), ok)]
    /\ task' = [task EXCEPT ![u] = Idle]
    /\ last' = [Step("on_fields_patch", u) EXCEPT
                   !.patch = IF ok THEN "ok" ELSE "failed", !.prev = task[u].prev,
                   !.patched = task[u].target]
    /\ UNCHANGED <<nsPhase, secrets, csecs_cache, csEv, nsEv, nsTask, secEv>>

\* on_delete, lines 53-59: the entry leaves the cache first
on_delete_remove(u) ==
    /\ csEv[u].kind = "delete" /\ task[u].pc = "idle"
    /\ csecs_cache' = remove_cluster_secret(csecs_cache, u)
    /\ task' = [task EXCEPT ![u] = [pc |-> "deleting", body |-> csEv[u].body,
                                    target |-> csEv[u].body.syncedns, prev |-> {}]]
    /\ csEv' = [csEv EXCEPT ![u] = NoCause]
    /\ last' = Step("on_delete_remove", u)
    /\ UNCHANGED <<nsPhase, secrets, cs, nsEv, nsTask, secEv, used>>

\* lines 61-63: delete the copies in the namespaces of the body's status;
\* when the handler returns kopf lets the object go
on_delete_secrets(u) ==
    /\ task[u].pc = "deleting"
    /\ secrets' = delete_all(secrets, task[u].target, CSName(u))
    /\ secEv' = secEv \cup Deleted(secrets, secrets', "on_delete")
    /\ cs' = [cs EXCEPT ![u].st = "gone"]
    /\ task' = [task EXCEPT ![u] = Idle]
    /\ last' = [Step("on_delete_secrets", u) EXCEPT
                   !.deletes = {<<n, CSName(u)>> : n \in task[u].target}]
    /\ UNCHANGED <<nsPhase, csecs_cache, csEv, nsEv, nsTask, used>>

\* ------------------------------------------------------------------ namespace handler
\* namespace_watcher up to line 212: the snapshot the loop runs over
namespace_watcher_begin(n) ==
    /\ nsEv[n] # "none" /\ nsTask.reason = "none"
    /\ nsTask' = IF DOMAIN csecs_cache = {} THEN NoNsTask
                 ELSE [reason |-> nsEv[n], ns |-> n, snap |-> csecs_cache,
                       todo |-> DOMAIN csecs_cache]
    /\ nsEv' = [nsEv EXCEPT ![n] = "none"]
    /\ last' = [Step("namespace_watcher_begin", "u1") EXCEPT !.cacheRead = TRUE]
    /\ UNCHANGED <<nsPhase, secrets, cs, csecs_cache, csEv, task, secEv, used>>

\* one round of the loop, lines 213-262, for the snapshot's entry of u
namespace_watcher_iter(u, ok) ==
    /\ nsTask.reason # "none" /\ u \in nsTask.todo
    /\ LET cached_cluster_secret == nsTask.snap[u]
           reason == nsTask.reason
           ns_name == nsTask.ns
           name == cached_cluster_secret.name
           ns_list_synced == cached_cluster_secret.synced_namespace
           listed == get_ns_list(nsPhase, cached_cluster_secret.match_namespace,
                                 cached_cluster_secret.avoid_namespaces)
           cloned == reason = "create" /\ ns_name \in listed
           dropped == reason = "delete" /\ ns_name \in ns_list_synced
           ns_list_new == IF dropped THEN listed \ {ns_name} ELSE listed
           ns_list_changed == cloned \/ dropped
           done == nsTask.todo = {u}
       IN /\ secrets' = IF cloned
                        THEN sync_secret(secrets, nsPhase, ns_name, name,
                                         cached_cluster_secret.data)
                        ELSE secrets
          /\ IF ns_list_changed
             THEN /\ ok \in PatchOutcomes(name)
                  /\ csecs_cache' = set_cluster_secret(csecs_cache,
                         [cached_cluster_secret EXCEPT !.synced_namespace = ns_list_new])
                  /\ cs' = patch_clustersecret_status(cs, name, ns_list_new, ok)
                  /\ used' = [used EXCEPT !.pf = @ + PatchCost(name, ok)]
             ELSE /\ ok = TRUE
                  /\ UNCHANGED <<csecs_cache, cs, used>>
          /\ nsTask' = IF done THEN NoNsTask ELSE [nsTask EXCEPT !.todo = @ \ {u}]
          /\ last' = [Step("namespace_watcher_iter", u) EXCEPT
                         !.syncs = IF cloned
                                   THEN {<<ns_name, name, cached_cluster_secret.data>>}
                                   ELSE {},
                         !.patch = IF ~ns_list_changed THEN "none"
                                   ELSE IF ok THEN "ok" ELSE "failed",
                         !.prev = IF u \in DOMAIN csecs_cache
                                  THEN csecs_cache[u].synced_namespace ELSE {},
                         !.cacheBefore = csecs_cache,
                         !.reason = reason, !.ns = ns_name,
                         !.patched = IF ns_list_changed THEN ns_list_new ELSE {}]
    /\ UNCHANGED <<nsPhase, csEv, task, nsEv, secEv>>

\* ------------------------------------------------------------------ secret handler
\* name.startswith('sh.helm.release.v1.')
StartsWithHelm(name) == Len(name) >= 1 /\ name[1] = HelmPrefix

\* re.match(r'^runner-.*-project-.*-concurrent-.*$', name)
MatchesRunner(name) ==
    /\ Len(name) >= 1 /\ name[1] = "runner-"
    /\ \E i, j \in 2..Len(name) :
          i < j /\ name[i] = "-project-" /\ name[j] = "-concurrent-"

\* the filter without its label test
is_noise_secret_by_name(name, labels) == StartsWithHelm(name) \/ MatchesRunner(name)

is_noise_secret(name, labels) ==
    \/ StartsWithHelm(name)
    \/ Get(labels, "owner", "") = "helm"
    \/ MatchesRunner(name)

\* data.get('valueFrom', {}).get('secretKeyRef', {})
SecretKeyRef(data) == Get(Get(data, "valueFrom", <<>>), "secretKeyRef", <<>>)

\* lines 290-295 without the test of the namespace
source_for_csecs_by_name(c, name, namespace) ==
    { u \in DOMAIN c : Get(SecretKeyRef(c[u].data), "name", NoName) = name }

\* lines 290-295 without the test of line 294: every ClusterSecret with a
\* valueFrom counts as taking its data from the secret
source_for_csecs_any_ref(c, name, namespace) ==
    { u \in DOMAIN c : SecretKeyRef(c[u].data) # <<>> }

\* lines 290-295: the cached ClusterSecrets that take their data from the secret
source_for_csecs(c, name, namespace) ==
    { u \in DOMAIN c :
        /\ Get(SecretKeyRef(c[u].data), "name", NoName) = name
        /\ Get(SecretKeyRef(c[u].data), "namespace", "") = namespace }

\* line 318 without its name test
SelfHealCandidates_any_name(c, name, namespace) ==
    { u \in DOMAIN c : namespace \in c[u].synced_namespace }

\* line 318: the cached ClusterSecrets the deleted secret is a copy of
SelfHealCandidates(c, name, namespace) ==
    { u \in DOMAIN c : c[u].name = name /\ namespace \in c[u].synced_namespace }

\* v1.read_namespace: the phase, 404, or another API error
ReadNamespace(n, err) ==
    IF err THEN "Error"
    ELSE IF nsPhase[n] = "Absent" THEN "NotFound" ELSE nsPhase[n]

\* lines 319-328 without the test of the phase
Heals_unless_not_found(lookup) == lookup # "NotFound"

\* lines 319-328: whether the loop goes on to sync_secret
Heals(lookup) == lookup \notin {"Terminating", "NotFound"}

\* on_secret_event for one watch event.  pick is the first entry of the
\* cache that line 318 accepts, err whether read_namespace raises an error
\* other than 404, origin who caused the event.
on_secret_event(ev, pick, err, origin) ==
    LET name == ev.name
        namespace == ev.namespace
        noise == is_noise_secret(name, ev.labels)
        is_managed == ev.managed
        sources == IF noise THEN {} ELSE source_for_csecs(csecs_cache, name, namespace)
        relevant == ~noise /\ (is_managed \/ sources # {})
        refan == IF relevant /\ ev.type \in {"ADDED", "MODIFIED"}
                 THEN UNION { { <<n, csecs_cache[u].name, csecs_cache[u].data>> :
                                  n \in csecs_cache[u].synced_namespace } : u \in sources }
                 ELSE {}
        cands == IF relevant /\ ev.type = "DELETED" /\ is_managed
                 THEN SelfHealCandidates(csecs_cache, name, namespace) ELSE {}
        lookup == IF cands = {} THEN "none" ELSE ReadNamespace(namespace, err)
        heal == IF cands # {} /\ Heals(lookup)
                THEN {<<namespace, csecs_cache[pick].name, csecs_cache[pick].data>>}
                ELSE {}
        warned == IF relevant /\ ev.type = "DELETED" /\ cands = {} THEN sources ELSE {}
        calls == refan \cup heal
    IN /\ ev.type \in {"ADDED", "MODIFIED", "DELETED"}
       /\ IF cands = {} THEN pick = "u1" /\ err = FALSE ELSE pick \in cands
       /\ secrets' = { s \in secrets :
                         ~ \E c \in calls : c[1] = s[1] /\ c[2] = s[2] /\ nsPhase[c[1]] = "Active" }
                     \cup {c \in calls : nsPhase[c[1]] = "Active"}
       /\ last' = [Step("on_secret_event", pick) EXCEPT
                      !.ev = ev, !.syncs = calls, !.lookup = lookup,
                      !.cacheRead = ~noise, !.nsRead = (cands # {}),
                      !.warns = warned, !.origin = origin,
                      !.cacheBefore = csecs_cache,
                      !.held = {<<s[1], s[2]>> : s \in secrets}]
       /\ UNCHANGED <<nsPhase, cs, csecs_cache, csEv, task, nsEv, nsTask, used>>

DeletedEvent(p) ==
    [type |-> "DELETED", name |-> p[2], namespace |-> p[1], labels |-> <<>>,
     managed |-> TRUE]

\* the secret watch delivers the DELETED event of a managed secret
managed_secret_deleted(p, pick, err) ==
    /\ p \in secEv
    /\ on_secret_event(DeletedEvent(p), pick, err, p[3])
    /\ secEv' = secEv \ {p}

\* ------------------------------------------------------------------ specification
Next ==
    \/ \E u \in UIDs : \E d \in DataOf(u) : \E s \in Selectors : UserCreate(u, d, s)
    \/ \E u \in UIDs : \E d \in DataOf(u) : UserUpdateData(u, d)
    \/ \E u \in UIDs : \E s \in Selectors : UserUpdateSelector(u, s)
    \/ \E u \in UIDs : UserDelete(u)
    \/ \E n \in Namespaces : CreateNamespace(n)
    \/ \E n \in Namespaces : DeleteNamespace(n)
    \/ \E n \in Namespaces : FinalizeNamespace(n)
    \/ \E n \in Namespaces : \E u \in UIDs : ExternalDeleteSecret(n, CSName(u))
    \/ \E u \in UIDs : create_fn(u)
    \/ \E u \in UIDs : on_field_data(u)
    \/ \E u \in UIDs : on_fields_reconcile(u)
    \/ \E u \in UIDs : on_fields_cache(u)
    \/ \E u \in UIDs : \E ok \in BOOLEAN : on_fields_patch(u, ok)
    \/ \E u \in UIDs : on_delete_remove(u)
    \/ \E u \in UIDs : on_delete_secrets(u)
    \/ \E n \in Namespaces : namespace_watcher_begin(n)
    \/ \E u \in UIDs : \E ok \in BOOLEAN : namespace_watcher_iter(u, ok)
    \/ \E p \in secEv : \E pick \in UIDs : \E err \in BOOLEAN :
          managed_secret_deleted(p, pick, err)

Spec == Init /\ [][Next]_vars

\* ------------------------------------------------------------------ the secret watch alone
\* on_secret_event over every kind of watch event, from every cache the
\* handlers can have built and every phase of the namespaces
NearHelmName == <<"x", HelmPrefix>>
NearRunnerName == <<"runner-", "x", "-concurrent-", "x", "-project-", "x">>
EventNames == {CSName("u1"), CSName("u2"), HelmName, SrcName, NearHelmName, NearRunnerName}
EventLabels == {<<>>, [owner |-> "helm"], [owner |-> "me"]}
WatchEvents ==
    { [type |-> t, name |-> nm, namespace |-> n, labels |-> l, managed |-> m] :
        t \in {"ADDED", "MODIFIED", "DELETED", "BOOKMARK"}, nm \in EventNames,
        n \in Namespaces, l \in EventLabels, m \in BOOLEAN }

CachedEntries(u) ==
    { BaseClusterSecret(u, CSName(u), d, synced,
                        [matchNamespace |-> {}, avoidNamespaces |-> {}]) :
        d \in (IF u = "u1" THEN {V1, RefSrc} ELSE {RefSrc, RefHelm, RefCopy}),
        synced \in {{}, {"a"}, {"a", "b"}} }

Caches ==
    { c \in UNION { [U -> UNION {CachedEntries(u) : u \in U}] : U \in SUBSET UIDs } :
        \A u \in DOMAIN c : c[u].uid = u }

\* the copies the cached ClusterSecrets keep in their synced namespaces
Copies(c, phase) ==
    UNION { { <<n, c[u].name, c[u].data>> :
                n \in {x \in c[u].synced_namespace : phase[x] = "Active"} } :
            u \in DOMAIN c }

InitSecretWatch ==
    /\ nsPhase \in [Namespaces -> {"Active", "Terminating", "Absent"}]
    /\ nsPhase["a"] # "Absent"
    /\ csecs_cache \in Caches
    /\ cs = [u \in UIDs |->
               IF u \in DOMAIN csecs_cache
               THEN [st |-> "live", data |-> csecs_cache[u].data,
                     sel |-> [matchNamespace |-> {}, avoidNamespaces |-> {}],
                     status |-> csecs_cache[u].synced_namespace]
               ELSE [st |-> "absent", data |-> V1,
                     sel |-> [matchNamespace |-> {}, avoidNamespaces |-> {}],
                     status |-> {}]]
    /\ \E gone \in SUBSET Copies(csecs_cache, nsPhase) :
          Cardinality(gone) <= 1 /\ secrets = Copies(csecs_cache, nsPhase) \ gone
    /\ csEv = [u \in UIDs |-> NoCause]
    /\ task = [u \in UIDs |-> Idle]
    /\ nsEv = [n \in Namespaces |-> "none"]
    /\ nsTask = NoNsTask
    /\ secEv = {}
    /\ used = [ev |-> 0, pf |-> 0]
    /\ last = Step("init", "u1")

\* the secret watch delivers an event; events that are not ADDED, MODIFIED
\* or DELETED return at line 271
secret_event(ev, pick, err) ==
    /\ last.h = "init"
    /\ IF ev.type \in {"ADDED", "MODIFIED", "DELETED"}
       THEN on_secret_event(ev, pick, err, "external")
       ELSE /\ pick = "u1" /\ err = FALSE
            /\ last' = [Step("on_secret_event", "u1") EXCEPT
                           !.ev = ev, !.cacheBefore = csecs_cache]
            /\ UNCHANGED <<nsPhase, secrets, cs, csecs_cache, csEv, task, nsEv, nsTask, used>>
    /\ UNCHANGED secEv

NextSecretWatch ==
    \E ev \in WatchEvents : \E pick \in UIDs : \E err \in BOOLEAN : secret_event(ev, pick, err)

SpecSecretWatch == InitSecretWatch /\ [][NextSecretWatch]_vars

\* ------------------------------------------------------------------ the operator starting
\* startup_fn and the resume events that follow it, over every set of
\* ClusterSecrets an earlier run can have left in the cluster
\* one item of get_custom_objects_by_kind; an object that was never
\* reconciled has no status
ListedItem(u) ==
    LET spec == [metadata |-> [uid |-> u, name |-> CSName(u)],
                 data |-> cs[u].data,
                 matchNamespace |-> cs[u].sel.matchNamespace,
                 avoidNamespaces |-> cs[u].sel.avoidNamespaces]
    IN IF cs[u].status = {} THEN spec
       ELSE spec @@ [status |-> [create_fn |-> [syncedns |-> cs[u].status]]]

\* get_custom_objects_by_kind: the ClusterSecrets that exist, by uid
Listed == {u \in UIDs : cs[u].st \in {"live", "deleting"}}

\* lines 363-373 with an entry that starts with nothing synced
startup_entry_unsynced(item) ==
    BaseClusterSecret(item.metadata.uid, item.metadata.name, item.data, {},
                      [matchNamespace |-> item.matchNamespace,
                       avoidNamespaces |-> item.avoidNamespaces])

\* lines 363-373: the entry startup_fn stores for an item
startup_entry(item) ==
    BaseClusterSecret(item.metadata.uid, item.metadata.name, item.data,
                      Get(Get(Get(item, "status", <<>>), "create_fn", <<>>), "syncedns", {}),
                      [matchNamespace |-> item.matchNamespace,
                       avoidNamespaces |-> item.avoidNamespaces])

\* startup_fn (async, no await, before any watch starts: one step); kopf
\* then raises a resume event for every ClusterSecret that exists
startup_fn ==
    /\ last.h = "init"
    /\ csecs_cache' = [u \in DOMAIN csecs_cache \cup Listed |->
                          IF u \in Listed THEN startup_entry(ListedItem(u))
                          ELSE csecs_cache[u]]
    /\ csEv' = [u \in UIDs |-> IF u \in Listed /\ cs[u].st = "live"
                               THEN [kind |-> "create", body |-> BodyOf(u)]
                               ELSE csEv[u]]
    /\ last' = [Step("startup_fn", "u1") EXCEPT
                   !.cacheBefore = csecs_cache,
                   !.held = {<<s[1], s[2]>> : s \in secrets}]
    /\ UNCHANGED <<nsPhase, secrets, cs, task, nsEv, nsTask, secEv, used>>

\* the event create_fn has just handled is delivered once more
redeliver(u) ==
    /\ last.h = "create_fn" /\ last.uid = u
    /\ cs[u].st = "live" /\ csEv[u].kind = "none"
    /\ used.ev < MaxEvents
    /\ csEv' = [csEv EXCEPT ![u] = [kind |-> "create", body |-> BodyOf(u)]]
    /\ used' = [used EXCEPT !.ev = @ + 1]
    /\ UNCHANGED <<nsPhase, secrets, cs, csecs_cache, task, nsEv, nsTask, secEv, last>>

\* the operator process is started again: its memory is empty
operator_restart ==
    /\ last.h = "create_fn"
    /\ \A u \in UIDs : csEv[u].kind = "none"
    /\ used.ev < MaxEvents
    /\ csecs_cache' = <<>>
    /\ used' = [used EXCEPT !.ev = @ + 1]
    /\ last' = Step("init", "u1")
    /\ UNCHANGED <<nsPhase, secrets, cs, csEv, task, nsEv, nsTask, secEv>>

\* what an earlier run left: ClusterSecrets with the status it recorded and
\* the copies it placed, under selectors that may have been edited since
InitStartup ==
    /\ nsPhase \in [Namespaces -> {"Active", "Terminating", "Absent"}]
    /\ cs \in [UIDs -> [st : {"absent", "live"}, data : {V1, RefSrc},
                         sel : Selectors, status : SUBSET Namespaces]]
    /\ \A u \in UIDs : /\ cs[u].data \in DataOf(u)
                       /\ cs[u].st = "absent"
                            => cs[u] = [st |-> "absent", data |-> cs[u].data,
                                        sel |-> [matchNamespace |-> {}, avoidNamespaces |-> {}],
                                        status |-> {}]
    /\ secrets = UNION { { <<n, CSName(u), cs[u].data>> :
                             n \in {x \in cs[u].status : nsPhase[x] = "Active"} } :
                         u \in {x \in UIDs : cs[x].st = "live"} }
    /\ csecs_cache = <<>>
    /\ csEv = [u \in UIDs |-> NoCause]
    /\ task = [u \in UIDs |-> Idle]
    /\ nsEv = [n \in Namespaces |-> "none"]
    /\ nsTask = NoNsTask
    /\ secEv = {}
    /\ used = [ev |-> 0, pf |-> 0]
    /\ last = Step("init", "u1")

NextStartup ==
    \/ startup_fn
    \/ \E u \in UIDs : create_fn(u)
    \/ \E u \in UIDs : redeliver(u)
    \/ operator_restart

SpecStartup == InitStartup /\ [][NextStartup]_vars

\* ------------------------------------------------------------------ field events
\* The operator is running: startup_fn has stored the ClusterSecrets its
\* listing returned (known), and the cluster holds what an earlier run left.
\* A ClusterSecret outside the listing whose creation this process did not
\* handle (kopf saw it with its last-handled annotation already set) is not
\* in the cache when its field events arrive.
InitFieldEvent ==
    /\ nsPhase \in [Namespaces -> {"Active", "Absent"}]
    /\ nsPhase["a"] = "Active"
    /\ cs \in [UIDs -> [st : {"absent", "live"}, data : {V1, RefSrc},
                         sel : Selectors, status : SUBSET Namespaces]]
    /\ \A u \in UIDs : /\ cs[u].data \in DataOf(u)
                       /\ \A n \in cs[u].status : nsPhase[n] = "Active"
                       /\ cs[u].st = "absent"
                            => cs[u] = [st |-> "absent", data |-> cs[u].data,
                                        sel |-> [matchNamespace |-> {}, avoidNamespaces |-> {}],
                                        status |-> {}]
    /\ secrets = UNION { { <<n, CSName(u), cs[u].data>> :
                             n \in {x \in cs[u].status : nsPhase[x] = "Active"} } :
                         u \in {x \in UIDs : cs[x].st = "live"} }
    /\ \E known \in SUBSET Listed :
          csecs_cache = [u \in known |-> startup_entry(ListedItem(u))]
    /\ csEv = [u \in UIDs |-> NoCause]
    /\ task = [u \in UIDs |-> Idle]
    /\ nsEv = [n \in Namespaces |-> "none"]
    /\ nsTask = NoNsTask
    /\ secEv = {}
    /\ used = [ev |-> 0, pf |-> 0]
    /\ last = Step("init", "u1")

NextFieldEvent ==
    \/ \E u \in UIDs : \E d \in DataOf(u) : UserUpdateData(u, d)
    \/ \E u \in UIDs, s \in Selectors : UserUpdateSelector(u, s)
    \/ \E u \in UIDs : on_field_data(u)
    \/ \E u \in UIDs : on_fields_reconcile(u)
    \/ \E u \in UIDs : on_fields_cache(u)
    \/ \E u \in UIDs, ok \in BOOLEAN : on_fields_patch(u, ok)

SpecFieldEvent == InitFieldEvent /\ [][NextFieldEvent]_vars

\* ------------------------------------------------------------------ properties
\* on_delete has taken the entry of u out of the cache (line 55 has run)
Removed(u) == task[u].pc = "deleting" \/ cs[u].st = "gone"

\* no pending cause, no pending watch event, no handler under way
Quiescent ==
    /\ \A u \in UIDs : csEv[u].kind = "none" /\ task[u].pc = "idle"
    /\ \A n \in Namespaces : nsEv[n] = "none"
    /\ nsTask.reason = "none"
    /\ secEv = {}

\* no handler is between two of its steps
BetweenHandlers == nsTask.reason = "none" /\ \A u \in UIDs : task[u].pc = "idle"

\* the Active namespaces that hold the managed secret of u
Holding(u) == {n \in Namespaces : nsPhase[n] = "Active" /\ HasSecret(secrets, n, CSName(u))}

\* the noise filter as the secret watch is documented to apply it
DocumentedNoise(ev) ==
    \/ (Len(ev.name) >= 1 /\ ev.name[1] = "sh.helm.release.v1.")
    \/ ("owner" \in DOMAIN ev.labels /\ ev.labels["owner"] = "helm")
    \/ (/\ Len(ev.name) >= 1 /\ ev.name[1] = "runner-"
        /\ \E i \in 2..Len(ev.name) : \E j \in (i + 1)..Len(ev.name) :
              ev.name[i] = "-project-" /\ ev.name[j] = "-concurrent-")

\* C1: a secret DELETED event that on_delete's own deletes produced never
\* makes on_secret_event call sync_secret for the ClusterSecret that is being
\* deleted: its entry left the cache before the first delete_secret.
C1_NoSelfHealWhileDeleting ==
    (last.h = "on_secret_event" /\ last.origin = "on_delete")
        => \A c \in last.syncs : \A u \in UIDs : CSName(u) = c[2] => ~Removed(u)

\* C2: when on_delete has returned, no Active namespace holds a managed
\* secret of the deleted ClusterSecret.
C2_DeleteLeavesNothing ==
    last.h = "on_delete_secrets" => Holding(last.uid) = {}

\* C3 as stated: a DELETED event of a managed secret whose name is that of a
\* cached ClusterSecret and whose namespace is Active gets the secret
\* re-applied there with the cached data.
C3_SelfHealByName ==
    (/\ last.h = "on_secret_event" /\ last.ev.type = "DELETED" /\ last.ev.managed
     /\ nsPhase[last.ev.namespace] = "Active")
        => \A u \in DOMAIN csecs_cache :
              csecs_cache[u].name = last.ev.name
                  => <<last.ev.namespace, last.ev.name, csecs_cache[u].data>> \in last.syncs

\* C3 amended: ... and whose namespace is in that ClusterSecret's cached
\* synced_namespace, and which the noise filter does not drop, gets the
\* secret re-applied there with the cached data, by one sync_secret call.
C3_SelfHealOfSynced ==
    (/\ last.h = "on_secret_event" /\ last.ev.type = "DELETED" /\ last.ev.managed
     /\ nsPhase[last.ev.namespace] = "Active"
     /\ ~DocumentedNoise(last.ev))
        => \A u \in DOMAIN csecs_cache :
              (/\ csecs_cache[u].name = last.ev.name
               /\ last.ev.namespace \in csecs_cache[u].synced_namespace)
                  => last.syncs = {<<last.ev.namespace, last.ev.name, csecs_cache[u].data>>}

C3_Witness ==
    /\ last.h = "on_secret_event" /\ last.ev.type = "DELETED" /\ last.ev.managed
    /\ last.origin = "external"
    /\ nsPhase[last.ev.namespace] = "Active"
    /\ \E u \in DOMAIN csecs_cache :
          /\ csecs_cache[u].name = last.ev.name
          /\ last.ev.namespace \in csecs_cache[u].synced_namespace
          /\ <<last.ev.namespace, last.ev.name, csecs_cache[u].data>> \in secrets

\* C4: a DELETED event of a managed secret whose namespace lookup says
\* Terminating or 404 makes no sync_secret call and leaves the cache as it was.
C4_NoHealWhenTerminating ==
    (/\ last.h = "on_secret_event" /\ last.ev.type = "DELETED" /\ last.ev.managed
     /\ last.lookup \in {"Terminating", "NotFound"})
        => last.syncs = {} /\ csecs_cache = last.cacheBefore

C4_Witness ==
    /\ last.h = "on_secret_event" /\ last.ev.type = "DELETED" /\ last.ev.managed
    /\ last.lookup = "Terminating"
    /\ nsPhase[last.ev.namespace] = "Terminating"

\* C5: an ADDED, MODIFIED or DELETED event of a noise secret makes
\* on_secret_event call nothing and read neither a namespace nor the cache,
\* managed or source secret or not.
C5_NoiseIsDropped ==
    (/\ last.h = "on_secret_event"
     /\ last.ev.type \in {"ADDED", "MODIFIED", "DELETED"}
     /\ DocumentedNoise(last.ev))
        => /\ last.syncs = {} /\ last.warns = {}
           /\ ~last.nsRead /\ ~last.cacheRead

C5_Witness ==
    /\ last.h = "on_secret_event" /\ last.ev.type = "MODIFIED"
    /\ DocumentedNoise(last.ev) /\ last.ev.managed
    /\ \E u \in DOMAIN csecs_cache :
          /\ csecs_cache[u].data = RefHelm
          /\ csecs_cache[u].synced_namespace # {}
          /\ last.ev.name = HelmName /\ last.ev.namespace = "a"

\* C6: at quiescence the Active namespaces holding the managed secret of a
\* cached ClusterSecret are exactly the targets of its selector.
C6_QuiescentFanOut ==
    Quiescent
        => \A u \in DOMAIN csecs_cache :
              Holding(u) = get_ns_list(nsPhase, csecs_cache[u].match_namespace,
                                       csecs_cache[u].avoid_namespaces)

\* C7: between handler executions every Active namespace that holds the
\* managed secret of a cached ClusterSecret is in its cached synced_namespace.
C7_SecretsWithinSynced ==
    BetweenHandlers
        => \A u \in DOMAIN csecs_cache : Holding(u) \subseteq csecs_cache[u].synced_namespace

\* C8: right after a successful status patch the status syncedns of the
\* ClusterSecret equals the synced_namespace of its cache entry.
C8_StatusEqualsCache ==
    (last.patch = "ok" /\ last.uid \in DOMAIN csecs_cache)
        => cs[last.uid].status = csecs_cache[last.uid].synced_namespace

\* C9: when the status patch of a handler fails, the cache entry's
\* synced_namespace is what it was before the handler published anything.
C9_CacheWaitsForPatch ==
    (last.patch = "failed" /\ last.uid \in DOMAIN csecs_cache)
        => csecs_cache[last.uid].synced_namespace = last.prev

\* C10: no two handlers work on the same uid at once: while a ClusterSecret
\* handler of u is under way, namespace_watcher holds no entry of u to work on.
C10_OneHandlerPerUid ==
    \A u \in UIDs : ~(task[u].pc # "idle" /\ nsTask.reason # "none" /\ u \in nsTask.todo)

\* C11: create_fn syncs the secret into every namespace of the selector's
\* target set, stores an entry whose synced_namespace is that set and returns
\* it as the status; with an empty selector the target is every namespace
\* that is listed.
C11_CreateSyncsTarget ==
    last.h = "create_fn"
        => LET u == last.uid
               target == get_ns_list(nsPhase, cs[u].sel.matchNamespace,
                                     cs[u].sel.avoidNamespaces)
           IN /\ last.syncs = {<<n, CSName(u), cs[u].data>> : n \in target}
              /\ u \in DOMAIN csecs_cache
              /\ csecs_cache[u].synced_namespace = target
              /\ cs[u].status = target
              /\ (cs[u].sel = [matchNamespace |-> {}, avoidNamespaces |-> {}]
                    => target = {n \in Namespaces : nsPhase[n] = "Active"})

C11_Witness ==
    /\ last.h = "create_fn"
    /\ cs[last.uid].sel = [matchNamespace |-> {}, avoidNamespaces |-> {}]
    /\ csecs_cache[last.uid].synced_namespace = {"a", "b"}
    /\ cs[last.uid].status = {"a", "b"}
    /\ \A n \in {"a", "b"} : <<n, CSName(last.uid), cs[last.uid].data>> \in secrets

\* C12: on_field_data re-applies the secret with the new data once in every
\* namespace of the ClusterSecret's synced list and in no other, and the
\* cache entry then holds the new data.
C12_DataReachesSynced ==
    (last.h = "on_field_data" /\ last.uid \in DOMAIN last.cacheBefore)
        => LET u == last.uid
           IN /\ last.syncs = {<<n, CSName(u), cs[u].data>> :
                                  n \in last.cacheBefore[u].synced_namespace}
              /\ u \in DOMAIN csecs_cache
              /\ csecs_cache[u].data = cs[u].data

\* C13: namespace_watcher on the creation of a namespace: a cached
\* ClusterSecret whose selector admits it gets the secret created there and
\* nowhere else, its synced list becomes the previous one plus the namespace,
\* and the status is patched with that list; one whose selector does not admit
\* it is left as it was, without a patch.
C13_NamespaceAdded ==
    (/\ last.h = "namespace_watcher_iter" /\ last.reason = "create"
     /\ last.uid \in DOMAIN last.cacheBefore)
        => LET u == last.uid
               e == last.cacheBefore[u]
               admits == last.ns \in get_ns_list(nsPhase, e.match_namespace,
                                                 e.avoid_namespaces)
           IN IF admits
              THEN /\ last.syncs = {<<last.ns, e.name, e.data>>}
                   /\ u \in DOMAIN csecs_cache
                   /\ csecs_cache[u].synced_namespace = e.synced_namespace \cup {last.ns}
                   /\ last.patch # "none"
                   /\ last.patched = e.synced_namespace \cup {last.ns}
              ELSE /\ last.syncs = {} /\ last.patch = "none"
                   /\ csecs_cache = last.cacheBefore

\* C14: namespace_watcher on the deletion of a namespace: a cached
\* ClusterSecret whose synced list holds it gets it taken out of the cached
\* list and of the patched status, nothing else added or dropped, and no
\* secret is synced or deleted; one whose list does not hold it is left as it
\* was.
C14_NamespaceDeleted ==
    (/\ last.h = "namespace_watcher_iter" /\ last.reason = "delete"
     /\ last.uid \in DOMAIN last.cacheBefore)
        => LET u == last.uid
               e == last.cacheBefore[u]
           IN /\ last.syncs = {} /\ last.deletes = {}
              /\ IF last.ns \in e.synced_namespace
                 THEN /\ u \in DOMAIN csecs_cache
                      /\ csecs_cache[u].synced_namespace = e.synced_namespace \ {last.ns}
                      /\ last.patch # "none"
                      /\ last.patched = e.synced_namespace \ {last.ns}
                 ELSE last.patch = "none" /\ csecs_cache = last.cacheBefore

\* the cached ClusterSecrets whose valueFrom.secretKeyRef is the secret of ev
Referencing(ev) ==
    { u \in DOMAIN csecs_cache :
        /\ "valueFrom" \in DOMAIN csecs_cache[u].data
        /\ csecs_cache[u].data.valueFrom.secretKeyRef.name = ev.name
        /\ csecs_cache[u].data.valueFrom.secretKeyRef.namespace = ev.namespace }

\* the sync_secret calls that re-sync the ClusterSecrets U into their synced
\* namespaces
FanOut(U) ==
    UNION { { <<n, csecs_cache[u].name, csecs_cache[u].data>> :
                n \in csecs_cache[u].synced_namespace } : u \in U }

\* C15 as stated: an ADDED or MODIFIED event of a secret makes sync_secret
\* be called for every namespace of the cached synced_namespace of each
\* ClusterSecret that references it, and for nothing else.
C15_SourceFanOut ==
    (last.h = "on_secret_event" /\ last.ev.type \in {"ADDED", "MODIFIED"})
        => last.syncs = FanOut(Referencing(last.ev))

\* C15 amended: an ADDED or MODIFIED event of a secret that is not a noise
\* secret makes sync_secret be called for every namespace of the cached
\* synced_namespace of each ClusterSecret that references it, and for nothing
\* else.
C15_SourceFanOutUnlessNoise ==
    (/\ last.h = "on_secret_event" /\ last.ev.type \in {"ADDED", "MODIFIED"}
     /\ ~DocumentedNoise(last.ev))
        => last.syncs = FanOut(Referencing(last.ev))

C15_Witness ==
    /\ last.h = "on_secret_event" /\ last.ev.type = "MODIFIED"
    /\ ~DocumentedNoise(last.ev)
    /\ Referencing(last.ev) = {"u2"}
    /\ DOMAIN csecs_cache = {"u1", "u2"}
    /\ csecs_cache["u1"].synced_namespace = {"a", "b"}
    /\ csecs_cache["u2"].synced_namespace = {"a", "b"}
    /\ last.syncs = {<<"a", CSName("u2"), RefSrc>>, <<"b", CSName("u2"), RefSrc>>}

\* C16: a DELETED event of a secret that cached ClusterSecrets reference as
\* their source logs a warning for each of them, calls no delete_secret,
\* removes no managed copy and leaves the cache as it was.
C16_SourceDeletedWarns ==
    (/\ last.h = "on_secret_event" /\ last.ev.type = "DELETED"
     /\ Referencing(last.ev) # {})
        => /\ last.warns = Referencing(last.ev)
           /\ last.deletes = {}
           /\ \A s \in last.held : HasSecret(secrets, s[1], s[2])
           /\ csecs_cache = last.cacheBefore

\* C17: startup_fn stores for every ClusterSecret that is listed an entry
\* under its uid whose synced_namespace is the status.create_fn.syncedns of
\* the object, empty when it has no status, and syncs, deletes and patches
\* nothing.
C17_StartupLoadsCache ==
    last.h = "startup_fn"
        => /\ DOMAIN csecs_cache = {u \in UIDs : cs[u].st = "live"}
           /\ \A u \in DOMAIN csecs_cache :
                 /\ csecs_cache[u].uid = u
                 /\ csecs_cache[u].synced_namespace = cs[u].status
           /\ last.syncs = {} /\ last.deletes = {} /\ last.patch = "none"
           /\ {<<s[1], s[2]>> : s \in secrets} = last.held

C17_Witness ==
    /\ last.h = "startup_fn"
    /\ DOMAIN csecs_cache = {"u1", "u2"}
    /\ cs["u1"].status = {} /\ csecs_cache["u1"].synced_namespace = {}
    /\ cs["u2"].status = {"a", "b"} /\ csecs_cache["u2"].synced_namespace = {"a", "b"}

\* C18: create_fn handling the same event a second time, nothing having
\* changed in between, leaves the cache, the status and the secrets as the
\* first handling left them.
C18_CreateIdempotent ==
    [][(/\ last.h = "create_fn" /\ csEv[last.uid].kind = "create"
        /\ last'.h = "create_fn" /\ last'.uid = last.uid)
          => /\ csecs_cache' = csecs_cache
             /\ cs' = cs
             /\ secrets' = secrets]_vars

C18_Witness ==
    /\ last.h = "create_fn" /\ last.again
    /\ csecs_cache[last.uid].synced_namespace = {"b"}
    /\ cs[last.uid].status = {"b"}
    /\ <<"b", CSName(last.uid), cs[last.uid].data>> \in secrets
    /\ <<"a", CSName(last.uid), cs[last.uid].data>> \in secrets

\* C19: on_fields_avoid_or_match_namespace, with target the selector's
\* result and synced the list synced before: the secret is synced into the
\* namespaces of target minus synced and deleted from those of synced minus
\* target, no others; the cache entry's synced_namespace becomes target and
\* the status is patched with target.  (last.patched is the target the
\* handler computed.)
C19_SelectorChangeDiff ==
    /\ (last.h = "on_fields_reconcile" /\ last.uid \in DOMAIN last.cacheBefore)
          => LET u == last.uid
                 synced == last.cacheBefore[u].synced_namespace
                 target == last.patched
             IN /\ last.syncs = {<<n, CSName(u), cs[u].data>> : n \in target \ synced}
                /\ last.deletes = {<<n, CSName(u)>> : n \in synced \ target}
    /\ last.h = "on_fields_cache"
          => csecs_cache[last.uid].synced_namespace = last.patched
    /\ (last.h = "on_fields_patch" /\ last.patch = "ok")
          => cs[last.uid].status = last.patched

\* C20: a ClusterSecret ADDED or resume-at-startup event is a full
\* reconcile: after create_fn has handled it, the namespaces holding the
\* managed secret are the target set, copies in previously synced
\* namespaces outside the target having been deleted.
C20_ResumeReconciles ==
    last.h = "create_fn"
      => LET u == last.uid
             target == get_ns_list(nsPhase, cs[u].sel.matchNamespace,
                                   cs[u].sel.avoidNamespaces)
         IN Holding(u) = target

\* C21: a data or selector change event handled for a uid that has no
\* entry in the cache makes no sync_secret, delete_secret or status-patch
\* call and inserts no entry for that uid.
C21_UnknownUidIgnored ==
    /\ (last.h \in {"on_field_data", "on_fields_reconcile"}
           /\ last.uid \notin DOMAIN last.cacheBefore)
          => /\ last.syncs = {} /\ last.deletes = {} /\ last.patch = "none"
             /\ last.uid \notin DOMAIN csecs_cache
    /\ (last.h = "on_fields_cache" /\ last.uid \notin DOMAIN last.cacheBefore)
          => last.uid \notin DOMAIN csecs_cache

\* C22: once on_delete has removed the uid of a ClusterSecret from the
\* cache, no handler puts an entry for that uid back.
C22_RemovedStaysRemoved ==
    \A u \in UIDs : Removed(u) => u \notin DOMAIN csecs_cache

\* the cached ClusterSecrets the secret of ev is a managed copy of: same
\* name, namespace in the synced list
Claiming(ev) ==
    { u \in DOMAIN csecs_cache :
        csecs_cache[u].name = ev.name /\ ev.namespace \in csecs_cache[u].synced_namespace }

\* C23: a secret event whose subject neither carries the management
\* annotation nor is the valueFrom.secretKeyRef source of a cached
\* ClusterSecret is dropped: no sync_secret call, no namespace read, cache
\* unchanged.  A DELETED event for an annotated secret that no cached
\* ClusterSecret claims (no entry of that name, or the namespace outside its
\* synced_namespace) triggers no recreate.
C23_IrrelevantIsDropped ==
    last.h = "on_secret_event"
      => /\ (~last.ev.managed /\ Referencing(last.ev) = {})
               => /\ last.syncs = {} /\ ~last.nsRead /\ last.lookup = "none"
                  /\ csecs_cache = last.cacheBefore
         /\ (last.ev.type = "DELETED" /\ last.ev.managed /\ Claiming(last.ev) = {})
               => last.syncs = {} /\ ~last.nsRead

\* an ADDED event for an unannotated secret named like the source of a
\* cached ClusterSecret, in another namespace, was handled while that
\* ClusterSecret had copies to re-sync
C23_Witness ==
    /\ last.h = "on_secret_event" /\ last.ev.type = "ADDED"
    /\ ~last.ev.managed /\ last.ev.labels = <<>>
    /\ last.ev.name = SrcName /\ last.ev.namespace = "b"
    /\ Referencing(last.ev) = {}
    /\ \E u \in DOMAIN csecs_cache :
          /\ csecs_cache[u].data = RefSrc
          /\ csecs_cache[u].synced_namespace = {"a", "b"}
    /\ nsPhase = [n \in Namespaces |-> "Active"]
    /\ last.syncs = {}

\* the cached ClusterSecrets that claimed the secret of the last event when
\* the handler started
ClaimedBefore(ev) ==
    { u \in DOMAIN last.cacheBefore :
        /\ last.cacheBefore[u].name = ev.name
        /\ ev.namespace \in last.cacheBefore[u].synced_namespace }

\* every data update of u has been handled
DataHandled(u) == cs[u].st = "live" /\ csEv[u].kind = "none" /\ task[u].pc = "idle"

\* C24: a secret DELETED event for a managed secret in an Active namespace
\* causes exactly one sync_secret call, for the namespace of the deleted
\* secret, and the call carries the ClusterSecret's current data: the
\* updated data when the data update was handled before the event.
C24_OneRecreateCurrentData ==
    (/\ last.h = "on_secret_event" /\ last.ev.type = "DELETED" /\ last.ev.managed
     /\ nsPhase[last.ev.namespace] = "Active")
      => \A u \in ClaimedBefore(last.ev) :
            /\ Cardinality(last.syncs) = 1
            /\ \A c \in last.syncs :
                  /\ c[1] = last.ev.namespace /\ c[2] = last.ev.name
                  /\ DataHandled(u) => c[3] = cs[u].data

\* C25: on_field_data leaves the synced namespace set alone: the cache
\* entry's synced_namespace after the handler is the one before it, and no
\* status patch is issued.
C25_DataKeepsSynced ==
    (last.h = "on_field_data" /\ last.uid \in DOMAIN last.cacheBefore)
      => /\ last.uid \in DOMAIN csecs_cache
         /\ csecs_cache[last.uid].synced_namespace
              = last.cacheBefore[last.uid].synced_namespace
         /\ last.patch = "none"

====
